---- MODULE Spec2Model ----
(***************************************************************************)
(* Model of the match-filter-aggregate pipeline and of the annotation      *)
(* renderer of PDF_Search_highlight:                                       *)
(*   search_function.py      search_documents                              *)
(*   co_occurance_search.py  search_documents_co_occurrence                *)
(*   pdf_highlighter.py      highlight_search_results                      *)
(*                                                                         *)
(* Strings are sequences of one-character strings.  A corpus (the data     *)
(* frame df read from the CSV) is a sequence of rows; the position of a    *)
(* row in df is its pandas index label.                                    *)
(***************************************************************************)
EXTENDS Integers, Sequences, FiniteSets, TLC

(***************************************************************************)
(* Bounds of the model.                                                    *)
(***************************************************************************)
NumRows == 2        \* rows of the corpus data frame
MaxDocs == 3        \* longest list of source documents the renderer is given
MaxLen == 3         \* longest string given to word_level_similarity

(***************************************************************************)
(* Characters.                                                             *)
(***************************************************************************)
Alphabet == {"a", "b", "A", "B", ".", " "}

IsAlpha(c) == c \in {"a", "b", "A", "B"}

IsSpace(c) == c = " "

\* \w of the re module, on Alphabet: letters (there are no digits and no "_")
IsWordChar(c) == IsAlpha(c)

\* str.lower / re.IGNORECASE folding of one character
Lower(c) == CASE c = "A" -> "a" [] c = "B" -> "b" [] OTHER -> c

LowerStr(s) == [i \in 1..Len(s) |-> Lower(s[i])]

(***************************************************************************)
(* Generic sequence helpers.                                               *)
(***************************************************************************)
Range(s) == {s[i] : i \in 1..Len(s)}

RECURSIVE SeqMax(_)
SeqMax(s) == IF Len(s) = 1 THEN s[1]
             ELSE LET m == SeqMax(Tail(s)) IN IF s[1] >= m THEN s[1] ELSE m

\* stable sort of s by the strict weak order Before: an element goes after
\* the elements that sort before it and after its equals that precede it in s
StableSort(s, Before(_, _)) ==
    LET n       == Len(s)
        rank(i) == 1 + Cardinality({j \in 1..n :
                            \/ Before(s[j], s[i])
                            \/ (~Before(s[i], s[j]) /\ j < i)})
    IN  [k \in 1..n |-> s[CHOOSE i \in 1..n : rank(i) = k]]

(***************************************************************************)
(* Regular expressions as the code uses them.                              *)
(***************************************************************************)
\* one pattern character of an unescaped pattern against one text character,
\* under re.IGNORECASE: "." matches any character, the others themselves
PatCharMatches(p, c) == IF p = "." THEN TRUE ELSE Lower(p) = Lower(c)

\* Series.str.contains(pat, case=False, na=False): pat is compiled as a
\* regular expression (regex=True is the default) and searched in the text
str_contains(text, pat) ==
    \E i \in 1..(Len(text) + 1) :
        /\ i + Len(pat) - 1 <= Len(text)
        /\ \A k \in 1..Len(pat) : PatCharMatches(pat[k], text[i + k - 1])

\* \b at position i of text (between text[i-1] and text[i])
WordBoundary(text, i) ==
    LET w(j) == j \in 1..Len(text) /\ IsWordChar(text[j])
    IN  w(i - 1) # w(i)

\* Series.str.contains(r'\b' + re.escape(term) + r'\b', case=False, na=False,
\* regex=True): the escaped term matches literally, between word boundaries
str_contains_word(text, term) ==
    \E i \in 1..(Len(text) + 1) :
        /\ i + Len(term) - 1 <= Len(text)
        /\ \A k \in 1..Len(term) : Lower(term[k]) = Lower(text[i + k - 1])
        /\ WordBoundary(text, i)
        /\ WordBoundary(text, i + Len(term))

(***************************************************************************)
(* clean_text and word_level_similarity (search_function.py).              *)
(***************************************************************************)
\* re.sub(r'[^a-zA-Z\s]', ' ', text)
SubNonAlpha(text) ==
    [i \in 1..Len(text) |-> IF IsAlpha(text[i]) \/ IsSpace(text[i]) THEN text[i] ELSE " "]

\* re.sub(r'\s+', ' ', text)
RECURSIVE CollapseSpaces(_)
CollapseSpaces(text) ==
    IF Len(text) <= 1 THEN text
    ELSE IF IsSpace(text[1]) /\ IsSpace(text[2]) THEN CollapseSpaces(Tail(text))
         ELSE <<text[1]>> \o CollapseSpaces(Tail(text))

\* str.strip()
RECURSIVE Strip(_)
Strip(text) ==
    IF text = <<>> THEN text
    ELSE IF IsSpace(text[1]) THEN Strip(Tail(text))
    ELSE IF IsSpace(text[Len(text)]) THEN Strip(SubSeq(text, 1, Len(text) - 1))
    ELSE text

clean_text(text) == Strip(CollapseSpaces(SubNonAlpha(text)))

\* str.split(): the maximal runs of non-space characters
RECURSIVE SplitFrom(_, _)
SplitFrom(text, word) ==
    IF text = <<>> THEN (IF word = <<>> THEN <<>> ELSE <<word>>)
    ELSE IF IsSpace(text[1])
         THEN (IF word = <<>> THEN <<>> ELSE <<word>>) \o SplitFrom(Tail(text), <<>>)
         ELSE SplitFrom(Tail(text), Append(word, text[1]))

Split(text) == SplitFrom(text, <<>>)

\* length of a longest common subsequence
RECURSIVE LCS(_, _)
LCS(a, b) ==
    IF a = <<>> \/ b = <<>> THEN 0
    ELSE IF a[1] = b[1] THEN 1 + LCS(Tail(a), Tail(b))
    ELSE LET x == LCS(Tail(a), b)
             y == LCS(a, Tail(b))
         IN  IF x >= y THEN x ELSE y

\* round(fuzz.ratio(a, b)): rapidfuzz's normalized indel similarity,
\* 100 * 2 * LCS / (len(a) + len(b)), rounded half to even as round() does
RoundedRatio(a, b) ==
    IF Len(a) + Len(b) = 0 THEN 100
    ELSE LET num == 200 * LCS(a, b)
             den == Len(a) + Len(b)
             q   == num \div den
             r   == num % den
         IN  IF 2 * r < den THEN q
             ELSE IF 2 * r > den THEN q + 1
             ELSE IF q % 2 = 0 THEN q ELSE q + 1

word_level_similarity(search_term, text) ==
    LET clean_search   == LowerStr(clean_text(search_term))
        clean_text_str == LowerStr(clean_text(text))
        words          == Split(clean_text_str)
    IN  IF clean_search \in Range(words) THEN 100
        ELSE IF words = <<>> THEN 0
        ELSE SeqMax([i \in 1..Len(words) |-> RoundedRatio(clean_search, words[i])])

(***************************************************************************)
(* State.                                                                  *)
(***************************************************************************)
VARIABLES
    fn,                   \* the function that was called
    pc,                   \* the position reached in it
    df,                   \* the corpus read from csv_file
    search_term,          \* search_documents: the term
    similarity_threshold, \* search_documents: the fuzzy threshold
    terms,                \* co-occurrence: the list of terms
    min_terms_required,   \* co-occurrence: the threshold on distinct terms
    negation_terms,       \* list of negation terms (empty: none)
    negation_distance,
    start_date,           \* NoBound or a date
    end_date,
    exact_matches,        \* search_documents: index labels of the exact stage
    fuzzy_matches,        \* search_documents: result rows of the fuzzy stage
    term_matches,         \* co-occurrence: term -> index labels of its matches
    unique_pages,         \* co-occurrence: the set of pages, in iteration order
    qualifying_pages,     \* co-occurrence: the pages that qualified, in order
    search_results,       \* the result rows, in order
    ret,                  \* what the function returned
    source_files,         \* renderer: the source documents present in base_folder
    tmp_disk,             \* renderer: the _tmp_*.pdf files of the working directory
    call,                 \* renderer: the local state of each running call
    csv_found,            \* whether csv_file exists
    files,                \* the files and directories a run has created and left
    driver,               \* the position reached in search_and_highlight
    start_year,           \* filter_data_by_year: first year kept
    end_year,             \* filter_data_by_year: last year kept
    filtered_df           \* filter_data_by_year: index labels of the rows returned

searchVars == <<fn, pc, df, search_term, similarity_threshold, terms,
                min_terms_required, negation_terms, negation_distance,
                start_date, end_date, exact_matches, fuzzy_matches,
                term_matches, unique_pages, qualifying_pages, search_results, ret>>

renderVars == <<source_files, tmp_disk, call>>

driverVars == <<csv_found, files, driver>>

plotVars == <<start_year, end_year, filtered_df>>

vars == <<searchVars, renderVars, driverVars, plotVars>>

\* a date cell that is empty (NaN in the frame, NaT once converted)
NoDate == 0

\* start_date / end_date left at None
NoBound == 0

\* chunk_size of the fuzzy stage
chunk_size == 10000

\* the index labels 1..Len(df) whose row satisfies Test, in frame order
RowsWhere(frame, Test(_)) ==
    SelectSeq([i \in 1..Len(frame) |-> i], LAMBDA i : Test(frame[i]))

\* the column values of a result row: the corpus row and the added columns
Columns(frame, r) == <<frame[r.idx], r.similarity>>

\* DataFrame.drop_duplicates(): a row is dropped when an earlier row has the
\* same value in every column (the index label is not a column)
drop_duplicates(frame, rows) ==
    LET keep == {i \in 1..Len(rows) :
                    \A j \in 1..(i - 1) : Columns(frame, rows[j]) # Columns(frame, rows[i])}
    IN  SelectSeq([i \in 1..Len(rows) |-> [pos |-> i, row |-> rows[i]]],
                  LAMBDA e : e.pos \in keep)

Rows(entries) == [i \in 1..Len(entries) |-> entries[i].row]

(***************************************************************************)
(* search_documents: exact and fuzzy stage (lines 97-133).                 *)
(***************************************************************************)
ExactStage(frame, term) ==
    RowsWhere(frame, LAMBDA row : str_contains(row.text, term))

\* remaining_df = df.drop(exact_matches.index)
Remaining(frame, exact) ==
    SelectSeq([i \in 1..Len(frame) |-> i], LAMBDA i : i \notin Range(exact))

\* a plausible slip: a chunk keeps only its best-placed match, the first
\* row at the threshold
ChunkMatches_head(frame, chunk, term, threshold) ==
    LET kept == SelectSeq([k \in 1..Len(chunk) |->
                              [idx |-> chunk[k],
                               similarity |-> word_level_similarity(term, frame[chunk[k]].text)]],
                          LAMBDA r : r.similarity >= threshold)
    IN  IF kept = <<>> THEN <<>> ELSE <<kept[1]>>

\* one chunk of the fuzzy stage: score every row, keep those at the threshold
ChunkMatches(frame, chunk, term, threshold) ==
    SelectSeq([k \in 1..Len(chunk) |->
                  [idx |-> chunk[k],
                   similarity |-> word_level_similarity(term, frame[chunk[k]].text)]],
              LAMBDA r : r.similarity >= threshold)

\* for i in range(0, len(remaining_df), chunk_size): ...; pd.concat(chunks)
RECURSIVE FuzzyChunks(_, _, _, _, _)
FuzzyChunks(frame, remaining, term, threshold, size) ==
    IF remaining = <<>> THEN <<>>
    ELSE LET n == IF Len(remaining) < size THEN Len(remaining) ELSE size
         IN  ChunkMatches(frame, SubSeq(remaining, 1, n), term, threshold)
             \o FuzzyChunks(frame, SubSeq(remaining, n + 1, Len(remaining)),
                            term, threshold, size)

FuzzyStage(frame, exact, term, threshold) ==
    FuzzyChunks(frame, Remaining(frame, exact), term, threshold, chunk_size)

\* exact_matches['similarity'] = 100
ExactRows(exact) == [k \in 1..Len(exact) |-> [idx |-> exact[k], similarity |-> 100]]

\* lines 75-80: pd.read_csv raises FileNotFoundError when csv_file is missing
MatchStage ==
    /\ fn = "search_documents" /\ pc = "start"
    /\ IF ~csv_found
       THEN /\ pc' = "done" /\ ret' = "NotFound"
            /\ UNCHANGED <<exact_matches, fuzzy_matches, search_results>>
       ELSE /\ LET exact == ExactStage(df, search_term)
                   fuzzy == FuzzyStage(df, exact, search_term, similarity_threshold)
               IN  /\ exact_matches' = exact
                   /\ fuzzy_matches' = fuzzy
                   /\ search_results' = Rows(drop_duplicates(df, ExactRows(exact) \o fuzzy))
            /\ pc' = "matched" /\ ret' = ret
    /\ UNCHANGED <<renderVars, driverVars, plotVars>>
    /\ UNCHANGED <<fn, df, search_term, similarity_threshold, terms, min_terms_required,
                   negation_terms, negation_distance, start_date, end_date,
                   term_matches, unique_pages, qualifying_pages>>

(***************************************************************************)
(* Negation filter of search_documents (lines 135-202).                    *)
(***************************************************************************)
\* math.sqrt on the squared distances of the model's anchor points, which
\* are all perfect squares
Sqrt(n) == CHOOSE r \in 0..n : r * r = n

calculate_distance(x1, y1, x2, y2) ==
    Sqrt((x2 - x1) * (x2 - x1) + (y2 - y1) * (y2 - y1))

\* the keys of a dict filled in the order of s: first occurrences, in order
DictKeys(s) ==
    SelectSeq([i \in 1..Len(s) |-> [pos |-> i, key |-> s[i]]],
              LAMBDA e : \A j \in 1..(e.pos - 1) : s[j] # e.key)

\* negation_matches_dict[term]
NegationMatches(frame, term) ==
    RowsWhere(frame, LAMBDA row : str_contains_word(row.text, term))

\* total_negation_matches: summed over negation_terms as given
RECURSIVE TotalNegationMatches(_, _)
TotalNegationMatches(frame, neg_terms) ==
    IF neg_terms = <<>> THEN 0
    ELSE Len(NegationMatches(frame, neg_terms[1]))
         + TotalNegationMatches(frame, Tail(neg_terms))

\* the negation rows the two nested loops visit for one result row, in order:
\* for each dict key, the rows of file_negations
RECURSIVE FileNegations(_, _, _)
FileNegations(frame, keys, filename) ==
    IF keys = <<>> THEN <<>>
    ELSE LET term == keys[1].key
             here == SelectSeq(NegationMatches(frame, term),
                               LAMBDA i : frame[i].filename = filename)
         IN  [k \in 1..Len(here) |-> [term |-> term, idx |-> here[k]]]
             \o FileNegations(frame, Tail(keys), filename)

\* float('inf')
Infinity == -1

\* a plausible slip: the comparison with the radius is turned round
IsCloseEnough_outside(distance, neg_dist, min_distance) ==
    distance >= neg_dist /\ (min_distance = Infinity \/ distance < min_distance)

\* a plausible slip: the radius excludes its own boundary
IsCloseEnough_strict(distance, neg_dist, min_distance) ==
    distance < neg_dist /\ (min_distance = Infinity \/ distance < min_distance)

\* the test of line 180: distance <= negation_distance and distance < min_distance
IsCloseEnough(distance, neg_dist, min_distance) ==
    distance <= neg_dist /\ (min_distance = Infinity \/ distance < min_distance)

\* the body of the inner loop, run over the visited negation rows
RECURSIVE ScanNegations(_, _, _, _, _, _)
ScanNegations(frame, visited, x1, y1, neg_dist, acc) ==
    IF visited = <<>> THEN acc
    ELSE LET neg_row  == frame[visited[1].idx]
             distance == calculate_distance(x1, y1, neg_row.bbx0, neg_row.bby0)
             next     == IF IsCloseEnough(distance, neg_dist, acc.min_distance)
                         THEN [has_nearby_negation |-> TRUE,
                               excluding_term      |-> visited[1].term,
                               min_distance        |-> distance]
                         ELSE acc
         IN  ScanNegations(frame, Tail(visited), x1, y1, neg_dist, next)

HasNearbyNegation(frame, r, neg_terms, neg_dist) ==
    LET row == frame[r.idx]
    IN  ScanNegations(frame, FileNegations(frame, DictKeys(neg_terms), row.filename),
                      row.bbx0, row.bby0, neg_dist,
                      [has_nearby_negation |-> FALSE,
                       excluding_term      |-> <<>>,
                       min_distance        |-> Infinity]).has_nearby_negation

\* the negation block: results_to_keep, or the results unchanged when the
\* block or its inner part is skipped
NegationFilter(frame, results, neg_terms, neg_dist) ==
    IF Len(neg_terms) > 0 /\ Len(results) > 0
       /\ TotalNegationMatches(frame, neg_terms) > 0
    THEN SelectSeq(results, LAMBDA r : ~HasNearbyNegation(frame, r, neg_terms, neg_dist))
    ELSE results

NegationStage ==
    /\ fn = "search_documents" /\ pc = "matched"
    /\ LET kept == NegationFilter(df, search_results, negation_terms, negation_distance)
       IN  /\ search_results' = kept
           /\ IF Len(kept) = 0
              THEN pc' = "done" /\ ret' = "None"
              ELSE pc' = "negated" /\ ret' = ret
    /\ UNCHANGED <<renderVars, driverVars, plotVars>>
    /\ UNCHANGED <<fn, df, search_term, similarity_threshold, terms, min_terms_required,
                   negation_terms, negation_distance, start_date, end_date,
                   exact_matches, fuzzy_matches, term_matches, unique_pages,
                   qualifying_pages>>

(***************************************************************************)
(* Date filter and final ordering of search_documents (lines 206-281).     *)
(***************************************************************************)
\* a bound that is a string pd.to_datetime cannot parse
Malformed == -1

\* a plausible slip: the lower bound is exclusive
DateFilter_exclusive(frame, results, start, end) ==
    IF start = Malformed THEN results
    ELSE
    LET afterStart == IF start # NoBound
                      THEN SelectSeq(results, LAMBDA r : frame[r.idx].date # NoDate
                                                        /\ frame[r.idx].date > start)
                      ELSE results
    IN  IF end = Malformed THEN afterStart
        ELSE IF end # NoBound
        THEN SelectSeq(afterStart, LAMBDA r : frame[r.idx].date # NoDate
                                             /\ frame[r.idx].date <= end)
        ELSE afterStart

\* search_results[search_results['date'] >= start_dt], then <= end_dt: a
\* comparison with NaT is False.  pd.to_datetime of a malformed bound raises
\* in both try blocks; the bare except clauses leave search_results as it
\* was at the raise: unfiltered for a malformed start_date, filtered by
\* start_date alone for a malformed end_date.
DateFilter(frame, results, start, end) ==
    IF start = Malformed THEN results
    ELSE
    LET afterStart == IF start # NoBound
                      THEN SelectSeq(results, LAMBDA r : frame[r.idx].date # NoDate
                                                        /\ frame[r.idx].date >= start)
                      ELSE results
    IN  IF end = Malformed THEN afterStart
        ELSE IF end # NoBound
        THEN SelectSeq(afterStart, LAMBDA r : frame[r.idx].date # NoDate
                                             /\ frame[r.idx].date <= end)
        ELSE afterStart

DateStage ==
    /\ fn = "search_documents" /\ pc = "negated"
    /\ LET kept == DateFilter(df, search_results, start_date, end_date)
       IN  /\ search_results' = kept
           /\ IF Len(kept) = 0
              THEN pc' = "done" /\ ret' = "None"
              ELSE pc' = "dated" /\ ret' = ret
    /\ UNCHANGED <<renderVars, driverVars, plotVars>>
    /\ UNCHANGED <<fn, df, search_term, similarity_threshold, terms, min_terms_required,
                   negation_terms, negation_distance, start_date, end_date,
                   exact_matches, fuzzy_matches, term_matches, unique_pages,
                   qualifying_pages>>

\* ascending order of a datetime column: NaT sorts last
DateBefore(d1, d2) == d1 # NoDate /\ (d2 = NoDate \/ d1 < d2)

\* a plausible slip: the two keys in the other order
SortByDatePage_swapped(frame, results) ==
    StableSort(results,
               LAMBDA a, b :
                   \/ frame[a.idx].page_number < frame[b.idx].page_number
                   \/ /\ frame[a.idx].page_number = frame[b.idx].page_number
                      /\ DateBefore(frame[a.idx].date, frame[b.idx].date))

\* sort_values(by=['date', 'page_number'], ascending=[True, True])
SortByDatePage(frame, results) ==
    StableSort(results,
               LAMBDA a, b :
                   \/ DateBefore(frame[a.idx].date, frame[b.idx].date)
                   \/ /\ frame[a.idx].date = frame[b.idx].date
                      /\ frame[a.idx].page_number < frame[b.idx].page_number)

SortStage ==
    /\ fn = "search_documents" /\ pc = "dated"
    /\ search_results' = SortByDatePage(df, search_results)
    /\ pc' = "done"
    /\ ret' = "results"
    /\ UNCHANGED <<renderVars, driverVars, plotVars>>
    /\ UNCHANGED <<fn, df, search_term, similarity_threshold, terms, min_terms_required,
                   negation_terms, negation_distance, start_date, end_date,
                   exact_matches, fuzzy_matches, term_matches, unique_pages,
                   qualifying_pages>>

NextSearch == MatchStage \/ NegationStage \/ DateStage \/ SortStage

(***************************************************************************)
(* search_documents_co_occurrence (co_occurance_search.py).                *)
(***************************************************************************)
\* code point order of the characters of Alphabet
Ord(c) == CASE c = " " -> 32 [] c = "." -> 46 [] c = "A" -> 65 [] c = "B" -> 66
            [] c = "a" -> 97 [] c = "b" -> 98

\* str < str
RECURSIVE StrLess(_, _)
StrLess(a, b) ==
    IF b = <<>> THEN FALSE
    ELSE IF a = <<>> THEN TRUE
    ELSE IF a[1] # b[1] THEN Ord(a[1]) < Ord(b[1])
    ELSE StrLess(Tail(a), Tail(b))

\* term_matches[term] for the dict keys, in dict order (lines 78-94)
TermMatches(frame, term_list) ==
    LET keys == DictKeys(term_list)
    IN  [k \in 1..Len(keys) |->
            [term    |-> keys[k].key,
             matches |-> RowsWhere(frame, LAMBDA row : str_contains_word(row.text, keys[k].key))]]

PageOfRow(row) == <<row.filename, row.page_number>>

\* unique_pages (lines 98-105), as a set
UniquePages(frame, tm) ==
    {PageOfRow(frame[i]) : i \in UNION {Range(tm[k].matches) : k \in 1..Len(tm)}}

\* the rows of one term on one page: matches[(filename == ..) & (page_number == ..)]
PageMatches(frame, matches, page) ==
    SelectSeq(matches, LAMBDA i : PageOfRow(frame[i]) = page)

\* terms_present of one page (lines 115-122)
TermsPresent(frame, tm, page) ==
    LET present == SelectSeq(tm, LAMBDA e : PageMatches(frame, e.matches, page) # <<>>)
    IN  [k \in 1..Len(present) |-> present[k].term]

\* a plausible slip: the match rows of the page are counted, not its terms
QualifyingPages_rows(frame, tm, pages, min_required) ==
    SelectSeq([k \in 1..Len(pages) |->
                  [page          |-> pages[k],
                   terms_count   |-> Len(TermsPresent(frame, tm, pages[k])),
                   terms_present |-> TermsPresent(frame, tm, pages[k])]],
              LAMBDA q : Cardinality({i \in 1..Len(frame) :
                                        /\ PageOfRow(frame[i]) = q.page
                                        /\ \E k \in 1..Len(tm) : i \in Range(tm[k].matches)})
                         >= min_required)

\* a plausible slip: the threshold itself does not qualify
QualifyingPages_above(frame, tm, pages, min_required) ==
    SelectSeq([k \in 1..Len(pages) |->
                  [page          |-> pages[k],
                   terms_count   |-> Len(TermsPresent(frame, tm, pages[k])),
                   terms_present |-> TermsPresent(frame, tm, pages[k])]],
              LAMBDA q : q.terms_count > min_required)

\* qualifying_pages (lines 110-128), following the iteration order of unique_pages
QualifyingPages(frame, tm, pages, min_required) ==
    SelectSeq([k \in 1..Len(pages) |->
                  [page          |-> pages[k],
                   terms_count   |-> Len(TermsPresent(frame, tm, pages[k])),
                   terms_present |-> TermsPresent(frame, tm, pages[k])]],
              LAMBDA q : q.terms_count >= min_required)

MatchesOfTerm(tm, term) == (CHOOSE e \in Range(tm) : e.term = term).matches

\* the rows collected for one qualifying page (lines 139-145), with the
\* co_occurring_terms_count column of lines 152-155
RECURSIVE CollectPage(_, _, _, _)
CollectPage(frame, tm, q, present) ==
    IF present = <<>> THEN <<>>
    ELSE LET here == PageMatches(frame, MatchesOfTerm(tm, present[1]), q.page)
         IN  [k \in 1..Len(here) |->
                 [idx |-> here[k], search_term |-> present[1],
                  co_occurring_terms_count |-> q.terms_count]]
             \o CollectPage(frame, tm, q, Tail(present))

\* pd.concat(all_qualifying_matches)
RECURSIVE CollectAll(_, _, _)
CollectAll(frame, tm, qualifying) ==
    IF qualifying = <<>> THEN <<>>
    ELSE CollectPage(frame, tm, qualifying[1], qualifying[1].terms_present)
         \o CollectAll(frame, tm, Tail(qualifying))

\* the sequences that list the elements of the set S once each
Orderings(S) ==
    {o \in [1..Cardinality(S) -> S] : \A i, j \in 1..Cardinality(S) : o[i] = o[j] => i = j}

coUnchanged == <<fn, df, search_term, similarity_threshold, terms, min_terms_required,
                 negation_terms, negation_distance, start_date, end_date,
                 exact_matches, fuzzy_matches>>

\* lines 59-94: validation, then the matches of each term
TermStage ==
    /\ fn = "search_documents_co_occurrence" /\ pc = "start"
    /\ IF Len(terms) < min_terms_required
       THEN /\ pc' = "done" /\ ret' = "Error"
            /\ term_matches' = term_matches
       ELSE IF ~csv_found
       THEN /\ pc' = "done" /\ ret' = "NotFound"
            /\ term_matches' = term_matches
       ELSE /\ pc' = "searched" /\ ret' = ret
            /\ term_matches' = TermMatches(df, terms)
    /\ UNCHANGED <<renderVars, driverVars, plotVars>>
    /\ UNCHANGED <<coUnchanged, unique_pages, qualifying_pages, search_results>>

\* lines 96-160: the set of pages is iterated in an order that depends on the
\* hashes of its elements
QualifyStage ==
    /\ fn = "search_documents_co_occurrence" /\ pc = "searched"
    /\ \E order \in Orderings(UniquePages(df, term_matches)) :
          LET qualifying == QualifyingPages(df, term_matches, order, min_terms_required)
          IN  /\ unique_pages' = order
              /\ qualifying_pages' = qualifying
              /\ IF qualifying = <<>>
                 THEN /\ pc' = "done" /\ ret' = "None"
                      /\ search_results' = search_results
                 ELSE /\ pc' = "qualified" /\ ret' = ret
                      /\ search_results' = CollectAll(df, term_matches, qualifying)
    /\ UNCHANGED <<renderVars, driverVars, plotVars>>
    /\ UNCHANGED <<coUnchanged, term_matches>>

\* the inner loop of lines 202-204 calls calculate_distance, a name that
\* co_occurance_search.py neither defines nor imports: the first negation row
\* visited raises NameError
CoNegationRaises(frame, results, neg_terms) ==
    /\ Len(neg_terms) > 0 /\ Len(results) > 0
    /\ TotalNegationMatches(frame, neg_terms) > 0
    /\ \E k \in 1..Len(results) :
          FileNegations(frame, DictKeys(neg_terms), frame[results[k].idx].filename) # <<>>

\* lines 162-230; when nothing raises every row reaches results_to_keep
CoNegationStage ==
    /\ fn = "search_documents_co_occurrence" /\ pc = "qualified"
    /\ IF CoNegationRaises(df, search_results, negation_terms)
       THEN pc' = "done" /\ ret' = "NameError"
       ELSE pc' = "negated" /\ ret' = ret
    /\ UNCHANGED <<renderVars, driverVars, plotVars>>
    /\ UNCHANGED <<coUnchanged, term_matches, unique_pages, qualifying_pages,
                   search_results>>

\* lines 232-282
CoDateStage ==
    /\ fn = "search_documents_co_occurrence" /\ pc = "negated"
    /\ LET kept == DateFilter(df, search_results, start_date, end_date)
       IN  /\ search_results' = kept
           /\ IF Len(kept) = 0
              THEN pc' = "done" /\ ret' = "None"
              ELSE pc' = "dated" /\ ret' = ret
    /\ UNCHANGED <<renderVars, driverVars, plotVars>>
    /\ UNCHANGED <<coUnchanged, term_matches, unique_pages, qualifying_pages>>

\* a plausible slip: the filename is left out of the keys
SortCoOccurrence_nofile(frame, results) ==
    StableSort(results,
               LAMBDA a, b :
                   LET ra == frame[a.idx]
                       rb == frame[b.idx]
                   IN  \/ ra.page_number < rb.page_number
                       \/ /\ ra.page_number = rb.page_number
                          /\ \/ a.co_occurring_terms_count > b.co_occurring_terms_count
                             \/ /\ a.co_occurring_terms_count = b.co_occurring_terms_count
                                /\ StrLess(a.search_term, b.search_term))

\* sort_values(by=['filename', 'page_number', 'co_occurring_terms_count',
\* 'search_term'], ascending=[True, True, False, True])
SortCoOccurrence(frame, results) ==
    StableSort(results,
               LAMBDA a, b :
                   LET ra == frame[a.idx]
                       rb == frame[b.idx]
                   IN  \/ ra.filename < rb.filename
                       \/ /\ ra.filename = rb.filename
                          /\ \/ ra.page_number < rb.page_number
                             \/ /\ ra.page_number = rb.page_number
                                /\ \/ a.co_occurring_terms_count > b.co_occurring_terms_count
                                   \/ /\ a.co_occurring_terms_count = b.co_occurring_terms_count
                                      /\ StrLess(a.search_term, b.search_term))

\* lines 284-294
CoSortStage ==
    /\ fn = "search_documents_co_occurrence" /\ pc = "dated"
    /\ search_results' = SortCoOccurrence(df, search_results)
    /\ pc' = "done"
    /\ ret' = "results"
    /\ UNCHANGED <<renderVars, driverVars, plotVars>>
    /\ UNCHANGED <<coUnchanged, term_matches, unique_pages, qualifying_pages>>

NextCo == TermStage \/ QualifyStage \/ CoNegationStage \/ CoDateStage \/ CoSortStage

(***************************************************************************)
(* highlight_search_results (pdf_highlighter.py).                          *)
(*                                                                         *)
(* A call keeps its locals in call[c].  tmp_disk is the set of temporary   *)
(* files in the working directory, which all calls share.  What the        *)
(* libraries and the file system answer (a document that does not open,    *)
(* an annotation or a save that raises, ...) is chosen by the environment. *)
(***************************************************************************)
Calls == {1, 2}

\* str.replace(old, new)
RECURSIVE Replace(_, _, _)
Replace(str, old, new) ==
    IF Len(str) < Len(old) THEN str
    ELSE IF SubSeq(str, 1, Len(old)) = old
         THEN new \o Replace(SubSeq(str, Len(old) + 1, Len(str)), old, new)
         ELSE <<str[1]>> \o Replace(Tail(str), old, new)

dot_pdf == <<".", "p", "d", "f">>

\* f"_tmp_{filename.replace(' ', '_').replace(',', '').replace('.pdf', '')}.pdf"
temp_path(filename) ==
    <<"_", "t", "m", "p", "_">>
    \o Replace(Replace(Replace(filename, <<" ">>, <<"_">>), <<",">>, <<>>), dot_pdf, <<>>)
    \o dot_pdf

f_a_b  == <<"a", " ", "b", ".", "p", "d", "f">>
f_a__b == <<"a", "_", "b", ".", "p", "d", "f">>
f_c    == <<"c", ".", "p", "d", "f">>

\* the source documents of the runs, and the number of pages each has
RenderFiles == {f_a_b, f_a__b, f_c}

PageCount(filename) == IF filename = f_c THEN 2 ELSE 1

\* os.path.basename(filename), without a trailing '.pdf' in any letter case
BookmarkTitle(filename) ==
    IF Len(filename) >= 4
       /\ LowerStr(SubSeq(filename, Len(filename) - 3, Len(filename))) = dot_pdf
    THEN SubSeq(filename, 1, Len(filename) - 4)
    ELSE filename

\* the filenames of the rows without dropping the repeated ones
UniqueFilenames_all(rows) ==
    [k \in 1..Len(rows) |-> rows[k].filename]

\* search_results['filename'].drop_duplicates().tolist()
UniqueFilenames(rows) ==
    LET names == [k \in 1..Len(rows) |-> rows[k].filename]
        keys  == DictKeys(names)
    IN  [k \in 1..Len(keys) |-> keys[k].key]

\* file_results: the rows of one file, in order
FileResults(rows, filename) == SelectSeq(rows, LAMBDA row : row.filename = filename)

\* term_colors: yellow, orange, green, blue, pink
PaletteSize == 5

\* lines 93-123: the palette index of the highlight of a row.  hash(term) is
\* the string hash of the process of the call.
HighlightColour(c, row) ==
    IF "similarity" \in DOMAIN row
    THEN IF row.similarity = 100 THEN 0
         ELSE IF row.similarity >= 90 THEN 1
         ELSE IF row.similarity >= 80 THEN 2
         ELSE 3
    ELSE IF "co_occurring_terms" \in DOMAIN row
    THEN IF "search_term" \in DOMAIN row
         THEN call[c].str_hash[row.search_term] % PaletteSize
         ELSE 0
    ELSE 0

\* a render that leaves out the rows before the number of the run
Rendered_skips(c, filename) ==
    [src       |-> filename,
     pages     |-> PageCount(filename),
     rects     |-> {row.rect : row \in {r \in Range(FileResults(call[c].search_results, filename)) :
                                           r.rect >= c}},
     colours   |-> {<<row.rect, HighlightColour(c, row)>> :
                       row \in Range(FileResults(call[c].search_results, filename))},
     watermark |-> call[c].add_watermarks]

\* the temporary file doc.save writes: the source pages with one highlight
\* per row of the file, and the watermark if asked for
Rendered(c, filename) ==
    [src       |-> filename,
     pages     |-> PageCount(filename),
     rects     |-> {row.rect : row \in Range(FileResults(call[c].search_results, filename))},
     colours   |-> {<<row.rect, HighlightColour(c, row)>> :
                       row \in Range(FileResults(call[c].search_results, filename))},
     watermark |-> call[c].add_watermarks]

\* what is left at the path of a save that raised
Truncated == [src |-> <<>>, pages |-> 0, rects |-> {}, colours |-> {}, watermark |-> FALSE]

\* the file at a path of the working directory is created or replaced
WriteTmp(disk, path, content, c) ==
    {e \in disk : e.path # path} \cup {[path |-> path, content |-> content, owner |-> c]}

\* pdf_writer.get_num_pages()
RECURSIVE NumPages(_)
NumPages(writer) ==
    IF writer = <<>> THEN 0
    ELSE writer[1].pages + NumPages(Tail(writer))

IdleCall ==
    [pc |-> "idle", search_results |-> <<>>, str_hash |-> <<>>,
     add_watermarks |-> FALSE, add_bookmarks |-> FALSE,
     unique_filenames |-> <<>>, pos |-> 0, hits_count |-> 0,
     pdf_writer |-> <<>>, outline |-> <<>>, temp_files |-> <<>>, open_docs |-> {},
     processed_count |-> 0, highlighted_count |-> 0,
     outcome |-> <<>>, log |-> <<>>, written |-> FALSE, output |-> <<>>,
     raised |-> FALSE, result |-> <<>>]

RenderIdle ==
    /\ source_files = {}
    /\ tmp_disk = {}
    /\ call = [c \in Calls |-> IdleCall]

Filename(c) == call[c].unique_filenames[call[c].pos]

\* the loop is left after logging what happened
Skip_aborts(c, what, kind) ==
    [call[c] EXCEPT !.outcome = Append(@, what),
                    !.log = Append(@, [kind |-> kind, filename |-> Filename(c)]),
                    !.pos = Len(call[c].unique_filenames) + 1,
                    !.pc = "loop"]

\* the loop moves on to the next filename after logging what happened
Skip(c, what, kind) ==
    [call[c] EXCEPT !.outcome = Append(@, what),
                    !.log = Append(@, [kind |-> kind, filename |-> Filename(c)]),
                    !.pos = @ + 1,
                    !.pc = "loop"]

\* lines 47-67: an empty CSV returns before the try block is entered
StartRender(c) ==
    /\ fn = "highlight_search_results" /\ call[c].pc = "start"
    /\ IF Len(call[c].search_results) = 0
       THEN call' = [call EXCEPT ![c].pc = "done",
                                 ![c].result = <<"None", "No search results found in CSV", 0, 0>>]
       ELSE call' = [call EXCEPT ![c].pc = "loop",
                                 ![c].pos = 1,
                                 ![c].unique_filenames = UniqueFilenames(call[c].search_results)]
    /\ UNCHANGED <<searchVars, driverVars, plotVars, source_files, tmp_disk>>

\* lines 70-149 for one filename: existence check, open, highlights,
\* watermark, save to the temporary path, close, temp_files.append
RenderDocument(c) ==
    /\ fn = "highlight_search_results" /\ call[c].pc = "loop"
    /\ call[c].pos <= Len(call[c].unique_filenames)
    /\ IF Filename(c) \notin source_files
       THEN /\ call' = [call EXCEPT ![c] = Skip(c, "missing", "Warning: File not found")]
            /\ tmp_disk' = tmp_disk
       ELSE \E answer \in {"open_fails", "annotate_fails", "save_fails", "save_partial", "saved"} :
               IF answer = "open_fails"
               THEN /\ call' = [call EXCEPT ![c] = Skip(c, answer, "Error processing")]
                    /\ tmp_disk' = tmp_disk
               ELSE IF answer \in {"annotate_fails", "save_fails"}
               THEN /\ call' = [call EXCEPT ![c] =
                                   [Skip(c, answer, "Error processing")
                                       EXCEPT !.open_docs = @ \cup {Filename(c)}]]
                    /\ tmp_disk' = tmp_disk
               ELSE IF answer = "save_partial"
               THEN \* doc.save raises after it has created the file
                    /\ call' = [call EXCEPT ![c] =
                                   [Skip(c, "save_fails", "Error processing")
                                       EXCEPT !.open_docs = @ \cup {Filename(c)}]]
                    /\ tmp_disk' = WriteTmp(tmp_disk, temp_path(Filename(c)), Truncated, c)
               ELSE /\ tmp_disk' = WriteTmp(tmp_disk, temp_path(Filename(c)),
                                            Rendered(c, Filename(c)), c)
                    /\ call' = [call EXCEPT
                                   ![c].hits_count =
                                       Len(FileResults(call[c].search_results, Filename(c))),
                                   ![c].temp_files = Append(@, temp_path(Filename(c))),
                                   ![c].pc = "append"]
    /\ UNCHANGED <<searchVars, driverVars, plotVars, source_files>>

\* the file pdf_writer.append reads at the temporary path, if there is one
TmpAt(path) == {e \in tmp_disk : e.path = path}

\* lines 151-181 for one filename: append the temporary file to the writer,
\* add the bookmark, count the document
AppendDocument(c) ==
    /\ fn = "highlight_search_results" /\ call[c].pc = "append"
    /\ \E answer \in {"append_fails", "bookmark_raises", "bookmark_warns", "ok"} :
          IF answer = "append_fails" \/ TmpAt(temp_path(Filename(c))) = {}
          THEN call' = [call EXCEPT ![c] = Skip(c, "append_fails", "Error processing")]
          ELSE LET file      == CHOOSE e \in TmpAt(temp_path(Filename(c))) : TRUE
                   appended  == Append(call[c].pdf_writer, file.content)
                   bookmark  == [title       |-> BookmarkTitle(Filename(c)),
                                 page_number |-> NumPages(appended) - 1]
               IN  IF call[c].add_bookmarks /\ answer = "bookmark_raises"
                   THEN call' = [call EXCEPT ![c] =
                                    [Skip(c, answer, "Error processing")
                                        EXCEPT !.pdf_writer = appended]]
                   ELSE call' = [call EXCEPT
                          ![c].pdf_writer = appended,
                          ![c].outline = IF call[c].add_bookmarks /\ answer = "ok"
                                         THEN Append(@, bookmark) ELSE @,
                          ![c].log = IF call[c].add_bookmarks /\ answer = "bookmark_warns"
                                     THEN Append(@, [kind |-> "Warning: Could not add bookmark",
                                                     filename |-> Filename(c)])
                                     ELSE @,
                          ![c].processed_count = @ + 1,
                          ![c].highlighted_count = @ + call[c].hits_count,
                          ![c].outcome = Append(@, "ok"),
                          ![c].pos = @ + 1,
                          ![c].pc = "loop"]
    /\ UNCHANGED <<searchVars, driverVars, plotVars, source_files, tmp_disk>>

\* the writer holds a document
HasPages_writer(c) == Len(call[c].pdf_writer) > 0

\* line 187: if processed_count > 0
HasPages(c) == call[c].processed_count > 0

\* lines 186-193: the output is written when a document was counted
FinishRender(c) ==
    /\ fn = "highlight_search_results" /\ call[c].pc = "loop"
    /\ call[c].pos > Len(call[c].unique_filenames)
    /\ IF HasPages(c)
       THEN \E answer \in {"written", "write_raises"} :
               IF answer = "written"
               THEN call' = [call EXCEPT
                       ![c].written = TRUE,
                       ![c].output = call[c].pdf_writer,
                       ![c].result = <<"output_pdf_path", "Created PDF",
                                       call[c].processed_count, call[c].highlighted_count>>,
                       ![c].pc = "finally"]
               ELSE call' = [call EXCEPT ![c].raised = TRUE, ![c].pc = "finally"]
       ELSE call' = [call EXCEPT
               ![c].result = <<"None",
                               "No pages were successfully processed. No output PDF created.",
                               0, 0>>,
               ![c].pc = "finally"]
    /\ UNCHANGED <<searchVars, driverVars, plotVars, source_files, tmp_disk>>

\* lines 197-202: os.remove of the paths of temp_files that exist
RemoveListed(disk, paths) == {e \in disk : e.path \notin Range(paths)}

\* glob.glob("_tmp_*.pdf")
GlobTmp(disk) ==
    {e \in disk : /\ Len(e.path) >= 9
                  /\ SubSeq(e.path, 1, 5) = <<"_", "t", "m", "p", "_">>
                  /\ SubSeq(e.path, Len(e.path) - 3, Len(e.path)) = dot_pdf}

\* only the files of temp_files are removed
AfterFinally_listed(disk, paths) == RemoveListed(disk, paths)

\* lines 195-209: the files of temp_files are removed, then every file
\* that matches _tmp_*.pdf in the working directory
AfterFinally(disk, paths) ==
    RemoveListed(disk, paths) \ GlobTmp(RemoveListed(disk, paths))

\* lines 195-209
Cleanup(c) ==
    /\ fn = "highlight_search_results" /\ call[c].pc = "finally"
    /\ tmp_disk' = AfterFinally(tmp_disk, call[c].temp_files)
    /\ call' = [call EXCEPT ![c].pc = "done"]
    /\ UNCHANGED <<searchVars, driverVars, plotVars, source_files>>

NextRender ==
    \E c \in Calls :
        \/ StartRender(c)
        \/ RenderDocument(c)
        \/ AppendDocument(c)
        \/ FinishRender(c)
        \/ Cleanup(c)

(***************************************************************************)
(* The command lines and search_and_highlight (combined_together.py),      *)
(* search_and_highlight_co_occurrence (co_occurance_search.py).            *)
(***************************************************************************)
\* the locals of search_and_highlight: its position, its options, and
\* whether output_directory exists when it is called
IdleDriver ==
    [pc |-> "idle", add_watermarks |-> FALSE, add_bookmarks |-> FALSE,
     outdir_exists |-> TRUE, pdf_path |-> "None"]

\* datetime.datetime.strptime(bound, '%Y-%m-%d') raises ValueError
FailsStrptime(bound) == bound = Malformed

\* combined_together.py lines 131-159: the bounds are validated, then
\* search_and_highlight is called, which calls search_documents
MainSingle ==
    /\ fn = "combined_together" /\ pc = "start"
    /\ IF FailsStrptime(start_date) \/ FailsStrptime(end_date)
       THEN /\ pc' = "done" /\ ret' = "exit(1)"
            /\ UNCHANGED <<fn, driver>>
       ELSE /\ fn' = "search_documents"
            /\ driver' = [driver EXCEPT !.pc = "search"]
            /\ UNCHANGED <<pc, ret>>
    /\ UNCHANGED <<df, search_term, similarity_threshold, terms, min_terms_required,
                   negation_terms, negation_distance, start_date, end_date,
                   exact_matches, fuzzy_matches, term_matches, unique_pages,
                   qualifying_pages, search_results>>
    /\ UNCHANGED <<renderVars, plotVars, csv_found, files>>

\* co_occurance_search.py lines 481-510: min_terms and the bounds are
\* validated, then search_and_highlight_co_occurrence is called, which calls
\* search_documents_co_occurrence
MainCo ==
    /\ fn = "co_occurance_search" /\ pc = "start"
    /\ IF \/ min_terms_required < 1 \/ min_terms_required > Len(terms)
          \/ FailsStrptime(start_date) \/ FailsStrptime(end_date)
       THEN /\ pc' = "done" /\ ret' = "exit(1)"
            /\ UNCHANGED <<fn, driver>>
       ELSE /\ fn' = "search_documents_co_occurrence"
            /\ driver' = [driver EXCEPT !.pc = "search"]
            /\ UNCHANGED <<pc, ret>>
    /\ UNCHANGED <<df, search_term, similarity_threshold, terms, min_terms_required,
                   negation_terms, negation_distance, start_date, end_date,
                   exact_matches, fuzzy_matches, term_matches, unique_pages,
                   qualifying_pages, search_results>>
    /\ UNCHANGED <<renderVars, plotVars, csv_found, files>>

(***************************************************************************)
(* Inputs: corpora and queries.                                            *)
(***************************************************************************)
s_ab   == <<"a", "b">>
s_Ab   == <<"A", "b">>
s_ba   == <<"b", "a">>
s_b    == <<"b">>
s_abb  == <<"a", "b", "b">>
s_adot == <<"a", ".">>
s_Ab_b == <<"A", "b", " ", "b">>
s_ab_ba == <<"a", "b", " ", "b", "a">>

\* The corpus builder names a source file "<title>, Page<n>, <date>.pdf" and
\* gives every row of the file that page number and that date.  Files are
\* numbered in the lexicographic order of their names.
Files == {1, 2, 3}

FilePage(f) == CASE f = 1 -> 1 [] f = 2 -> 2 [] f = 3 -> 1

FileDate(f) == CASE f = 1 -> 2 [] f = 2 -> 1 [] f = 3 -> 2

Row(f, d, t, x, y) ==
    [filename |-> f, page_number |-> FilePage(f), date |-> d, text |-> t,
     bbx0 |-> x, bby0 |-> y]

SearchIdle ==
    /\ pc = "start"
    /\ ret = "running"
    /\ exact_matches = <<>>
    /\ fuzzy_matches = <<>>
    /\ term_matches = <<>>
    /\ unique_pages = <<>>
    /\ qualifying_pages = <<>>
    /\ search_results = <<>>

\* no search_and_highlight is running; the corpus file is there
DriverIdle ==
    /\ csv_found = TRUE
    /\ files = {}
    /\ driver = IdleDriver

PlotIdle ==
    /\ start_year = 0
    /\ end_year = 0
    /\ filtered_df = <<>>

Idle ==
    /\ RenderIdle
    /\ SearchIdle
    /\ DriverIdle
    /\ PlotIdle

NoSingleQuery == search_term = <<>> /\ similarity_threshold = 0

NoCoQuery == terms = <<>> /\ min_terms_required = 0

\* matching: texts, terms and thresholds vary
MatchRows == {Row(1, FileDate(1), t, 0, 0) : t \in {s_ab, s_adot, s_Ab_b, s_abb, s_ba, s_b}}

InitMatch ==
    /\ fn = "search_documents"
    /\ Idle /\ NoCoQuery
    /\ df \in [1..NumRows -> MatchRows]
    /\ search_term \in {s_ab, s_adot, s_b}
    /\ similarity_threshold \in {50, 80}
    /\ negation_terms = <<>>
    /\ negation_distance = 100
    /\ start_date = NoBound
    /\ end_date = NoBound

SpecMatch == InitMatch /\ [][NextSearch]_vars

\* negation: anchors, files, negation terms and distances vary
NegRows ==
    {Row(f, FileDate(f), t, a[1], a[2]) :
        f \in {1, 2}, t \in {s_ab, s_b, s_Ab_b, s_ba}, a \in {<<0, 0>>, <<3, 4>>}}

\* the values of negation_distance: the distances between the anchors of
\* NegRows are 0 and 5
Distances == {0, 4, 5}

InitNeg ==
    /\ fn = "search_documents"
    /\ Idle /\ NoCoQuery
    /\ df \in [1..NumRows -> NegRows]
    /\ search_term = s_ab
    /\ similarity_threshold = 80
    /\ negation_terms \in {<<>>, <<s_b>>, <<s_ba, s_b>>}
    /\ negation_distance \in Distances
    /\ start_date = NoBound
    /\ end_date = NoBound

SpecNeg == InitNeg /\ [][NextSearch]_vars

\* co-occurrence: pages, terms, threshold, negation and date range vary; a
\* row of file 1 may have an empty date cell
CoRows ==
    {Row(f, FileDate(f), t, 0, 0) : f \in Files, t \in {s_ab, s_ba, s_ab_ba}}
    \cup {Row(1, NoDate, t, 0, 0) : t \in {s_ab, s_ba, s_ab_ba}}

CoFilters ==
    {[neg |-> <<>>, start |-> NoBound, end |-> NoBound],
     [neg |-> <<>>, start |-> 2, end |-> NoBound],
     [neg |-> <<>>, start |-> NoBound, end |-> 1],
     [neg |-> <<s_ba>>, start |-> NoBound, end |-> NoBound]}

InitCo ==
    /\ fn = "search_documents_co_occurrence"
    /\ Idle /\ NoSingleQuery
    /\ df \in [1..NumRows -> CoRows]
    /\ terms \in {<<s_ab, s_ba>>, <<s_ab, s_ab>>, <<s_ab, s_Ab>>}
    /\ min_terms_required \in {1, 2}
    /\ negation_distance = 100
    /\ \E f \in CoFilters :
          negation_terms = f.neg /\ start_date = f.start /\ end_date = f.end

SpecCo == InitCo /\ [][NextCo]_vars

\* ranking: both functions, on files whose name order, date order and page
\* order differ
RankRows ==
    {Row(f, d, t, 0, 0) : f \in Files, d \in {1, 2, NoDate}, t \in {s_ab, s_abb}}

InitRankSearch ==
    /\ fn = "search_documents"
    /\ Idle /\ NoCoQuery
    /\ df \in [1..NumRows -> {r \in RankRows : r.date \in {FileDate(r.filename), NoDate}}]
    /\ search_term = s_ab
    /\ similarity_threshold = 80
    /\ negation_terms = <<>>
    /\ negation_distance = 100
    /\ start_date = NoBound
    /\ end_date = NoBound

InitRank == InitRankSearch \/ InitCo

NextRank == NextSearch \/ NextCo

SpecRank == InitRank /\ [][NextRank]_vars

\* rendering: the result rows, the documents present, the options and the
\* answers of the environment vary; one call runs
CsvRows(n) ==
    {[k \in 1..n |-> [filename |-> names[k], rect |-> k]] : names \in [1..n -> RenderFiles]}

InitRender ==
    /\ fn = "highlight_search_results"
    /\ SearchIdle /\ DriverIdle /\ PlotIdle /\ NoSingleQuery /\ NoCoQuery
    /\ df = <<>>
    /\ negation_terms = <<>>
    /\ negation_distance = 0
    /\ start_date = NoBound
    /\ end_date = NoBound
    /\ source_files \in SUBSET RenderFiles
    /\ tmp_disk = {}
    /\ \E n \in 0..MaxDocs : \E rows \in CsvRows(n) : \E marks, outline \in BOOLEAN :
          call = [c \in Calls |->
                    IF c = 1
                    THEN [IdleCall EXCEPT !.pc = "start",
                                          !.search_results = rows,
                                          !.add_watermarks = marks,
                                          !.add_bookmarks = outline]
                    ELSE IdleCall]

SpecRender == InitRender /\ [][NextRender]_vars

\* the second run starts when the first one has exited
NextTwice ==
    \E c \in Calls :
        /\ \A d \in Calls : d < c => call[d].pc = "done"
        /\ \/ StartRender(c)
           \/ RenderDocument(c)
           \/ AppendDocument(c)
           \/ FinishRender(c)
           \/ Cleanup(c)

\* the same results are rendered twice, one run after the other, with the
\* same options and the same documents present
InitTwice ==
    /\ fn = "highlight_search_results"
    /\ SearchIdle /\ DriverIdle /\ PlotIdle /\ NoSingleQuery /\ NoCoQuery
    /\ df = <<>>
    /\ negation_terms = <<>>
    /\ negation_distance = 0
    /\ start_date = NoBound
    /\ end_date = NoBound
    /\ source_files \in {RenderFiles, RenderFiles \ {f_a_b}}
    /\ tmp_disk = {}
    /\ \E n \in 1..(MaxDocs - 1) : \E rows \in CsvRows(n) :
          call = [c \in Calls |->
                    [IdleCall EXCEPT !.pc = "start", !.search_results = rows]]

SpecTwice == InitTwice /\ [][NextTwice]_vars

\* co-occurrence results for one document: rows with the columns
\* search_term and co_occurring_terms and without similarity
ColourTerms == {s_ab, s_ba}

CoCsvRows(n) ==
    {[k \in 1..n |-> [filename |-> f_c, rect |-> k,
                      search_term |-> words[k], co_occurring_terms |-> ColourTerms]] :
        words \in [1..n -> ColourTerms]}

\* values hash(str) can take in a process; PYTHONHASHSEED is random by
\* default, so each process has its own
HashValues == {0, 1, 5}

\* the same co-occurrence results are rendered twice, by two processes, one
\* after the other
InitColour ==
    /\ fn = "highlight_search_results"
    /\ SearchIdle /\ DriverIdle /\ PlotIdle /\ NoSingleQuery /\ NoCoQuery
    /\ df = <<>>
    /\ negation_terms = <<>>
    /\ negation_distance = 0
    /\ start_date = NoBound
    /\ end_date = NoBound
    /\ source_files = RenderFiles
    /\ tmp_disk = {}
    /\ \E n \in 1..(MaxDocs - 1) : \E rows \in CoCsvRows(n) :
       \E hashes \in [Calls -> [ColourTerms -> HashValues]] :
          call = [c \in Calls |->
                    [IdleCall EXCEPT !.pc = "start",
                                     !.search_results = rows,
                                     !.str_hash = hashes[c]]]

SpecColour == InitColour /\ [][NextTwice]_vars

\* two calls run at the same time in one working directory, each on its own
\* results (one row for the second call); every source document is present
InitConcurrent ==
    /\ fn = "highlight_search_results"
    /\ SearchIdle /\ DriverIdle /\ PlotIdle /\ NoSingleQuery /\ NoCoQuery
    /\ df = <<>>
    /\ negation_terms = <<>>
    /\ negation_distance = 0
    /\ start_date = NoBound
    /\ end_date = NoBound
    /\ source_files = RenderFiles
    /\ tmp_disk = {}
    /\ \E n1 \in 1..(MaxDocs - 1) : \E rows1 \in CsvRows(n1) : \E rows2 \in CsvRows(1) :
          call = [c \in Calls |->
                    [IdleCall EXCEPT !.pc = "start",
                                     !.search_results = IF c = 1 THEN rows1 ELSE rows2]]

SpecConcurrent == InitConcurrent /\ [][NextRender]_vars

\* arguments: the command lines and the functions called directly, with
\* min_terms_required and the bounds as the caller gives them
ArgRows ==
    {Row(f, FileDate(f), s_ab_ba, 0, 0) : f \in {1, 2}} \cup {Row(1, NoDate, s_ab_ba, 0, 0)}

ArgBounds == {NoBound, 1, 2, Malformed}

InitArgs ==
    /\ Idle
    /\ df \in [1..NumRows -> ArgRows]
    /\ negation_terms = <<>>
    /\ negation_distance = 100
    /\ start_date \in ArgBounds
    /\ end_date \in ArgBounds
    /\ \/ /\ fn \in {"combined_together", "search_documents"}
          /\ search_term = s_ab
          /\ similarity_threshold = 80
          /\ NoCoQuery
       \/ /\ fn \in {"co_occurance_search", "search_documents_co_occurrence"}
          /\ terms = <<s_ab, s_ba>>
          /\ min_terms_required \in -1..3
          /\ NoSingleQuery

NextArgs == MainSingle \/ MainCo \/ NextSearch \/ NextCo

SpecArgs == InitArgs /\ [][NextArgs]_vars

\* the name of the source document of a file number
SourceName(f) == CASE f = 1 -> f_a_b [] f = 2 -> f_a__b [] f = 3 -> f_c

\* the rows highlight_search_results reads back from the results CSV
CsvOf(frame, results) ==
    [k \in 1..Len(results) |->
        IF "similarity" \in DOMAIN results[k]
        THEN [filename |-> SourceName(frame[results[k].idx].filename),
              rect |-> results[k].idx,
              similarity |-> results[k].similarity]
        ELSE [filename |-> SourceName(frame[results[k].idx].filename),
              rect |-> results[k].idx,
              search_term |-> results[k].search_term,
              co_occurring_terms |-> results[k].co_occurring_terms_count]]

\* only an empty result stops the run
Stops_onempty(r) == r = "None"

\* 'if search_results is None: return': the search function returned
\* (None, message)
Stops(r) == r # "results"

\* what the save step leaves: the results CSV only
SavedFiles_nodir(outdir_exists) == {"results_csv"}

\* save_search_results / save_co_occurrence_results: os.makedirs of an
\* output_directory that does not exist, then search_results.to_csv
SavedFiles(outdir_exists) ==
    {"results_csv"} \cup (IF outdir_exists THEN {} ELSE {"output_directory"})

\* search_and_highlight after the search function has returned
\* (combined_together.py lines 40-95, co_occurance_search.py lines 389-418):
\* return when there is no result set, else save the results and call
\* highlight_search_results on the CSV
SearchReturns ==
    /\ driver.pc = "search" /\ pc = "done"
    /\ fn \in {"search_documents", "search_documents_co_occurrence"}
    /\ IF ret = "NameError"
       THEN /\ driver' = [driver EXCEPT !.pc = "raised"]
            /\ UNCHANGED <<fn, files, call>>
       ELSE IF Stops(ret)
       THEN /\ driver' = [driver EXCEPT !.pc = "returned"]
            /\ UNCHANGED <<fn, files, call>>
       ELSE /\ files' = files \cup SavedFiles(driver.outdir_exists)
            /\ fn' = "highlight_search_results"
            /\ driver' = [driver EXCEPT !.pc = "render"]
            /\ \E hashes \in [ColourTerms -> HashValues] :
                  call' = [call EXCEPT ![1] =
                             [IdleCall EXCEPT !.pc = "start",
                                              !.search_results = CsvOf(df, search_results),
                                              !.add_watermarks = driver.add_watermarks,
                                              !.add_bookmarks = driver.add_bookmarks,
                                              !.str_hash = hashes]]
    /\ UNCHANGED <<pc, df, search_term, similarity_threshold, terms, min_terms_required,
                   negation_terms, negation_distance, start_date, end_date,
                   exact_matches, fuzzy_matches, term_matches, unique_pages,
                   qualifying_pages, search_results, ret>>
    /\ UNCHANGED <<source_files, tmp_disk, csv_found, plotVars>>

\* search_and_highlight after highlight_search_results has returned or raised
RenderReturns ==
    /\ driver.pc = "render" /\ call[1].pc = "done"
    /\ IF call[1].raised
       THEN driver' = [driver EXCEPT !.pc = "raised"]
       ELSE driver' = [driver EXCEPT !.pc = "returned", !.pdf_path = call[1].result[1]]
    /\ UNCHANGED <<searchVars, renderVars, plotVars, csv_found, files>>

NextPipeline == NextSearch \/ NextCo \/ SearchReturns \/ NextRender \/ RenderReturns

\* whole runs of search_and_highlight and search_and_highlight_co_occurrence
\* with valid arguments: the corpus file, the output directory and the
\* source documents may be missing
InitPipeline ==
    /\ SearchIdle /\ PlotIdle
    /\ source_files \in {RenderFiles, {f_a__b}, {}}
    /\ tmp_disk = {}
    /\ call = [c \in Calls |-> IdleCall]
    /\ csv_found \in BOOLEAN
    /\ files = {}
    /\ df \in [1..NumRows -> ArgRows]
    /\ negation_distance = 100
    /\ start_date \in {NoBound, 2}
    /\ end_date = NoBound
    /\ \/ /\ fn = "search_documents"
          /\ search_term = s_ab
          /\ similarity_threshold = 80
          /\ NoCoQuery
          /\ negation_terms = <<>>
          /\ \E outline, exists \in BOOLEAN :
                driver = [IdleDriver EXCEPT !.pc = "search",
                                            !.add_bookmarks = outline,
                                            !.outdir_exists = exists]
       \/ /\ fn = "search_documents_co_occurrence"
          /\ terms = <<s_ab, s_ba>>
          /\ min_terms_required = 2
          /\ NoSingleQuery
          /\ negation_terms \in {<<>>, <<s_ba>>}
          /\ \E exists \in BOOLEAN :
                driver = [IdleDriver EXCEPT !.pc = "search", !.outdir_exists = exists]

SpecPipeline == InitPipeline /\ [][NextPipeline]_vars

\* word_level_similarity on its own: the term and the text are any strings
\* of letters, spaces and dots up to MaxLen characters
SimChars == {"a", "b", "B", ".", " "}

RECURSIVE StringsUpTo(_)
StringsUpTo(n) ==
    IF n = 0 THEN {<<>>}
    ELSE LET shorter == StringsUpTo(n - 1)
         IN  shorter \cup {Append(str, c) : str \in {t \in shorter : Len(t) = n - 1}, c \in SimChars}

InitSim ==
    /\ fn = "word_level_similarity"
    /\ Idle /\ NoCoQuery
    /\ search_term \in StringsUpTo(MaxLen)
    /\ similarity_threshold = 0
    /\ \E text \in StringsUpTo(MaxLen) : df = <<Row(1, FileDate(1), text, 0, 0)>>
    /\ negation_terms = <<>>
    /\ negation_distance = 0
    /\ start_date = NoBound
    /\ end_date = NoBound

\* the call word_level_similarity(search_term, row['text']) of the fuzzy
\* stage, for the one row of the frame
Score ==
    /\ fn = "word_level_similarity" /\ pc = "start"
    /\ fuzzy_matches' = <<[idx |-> 1,
                           similarity |-> word_level_similarity(search_term, df[1].text)]>>
    /\ pc' = "done"
    /\ UNCHANGED <<renderVars, driverVars, plotVars>>
    /\ UNCHANGED <<fn, df, search_term, similarity_threshold, terms, min_terms_required,
                   negation_terms, negation_distance, start_date, end_date,
                   exact_matches, term_matches, unique_pages, qualifying_pages,
                   search_results, ret>>

SpecSim == InitSim /\ [][Score]_vars

\* search terms without a letter
s_dot    == <<".">>
s_dotdot == <<".", ".">>

\* search_documents with a term of non-alphabetic characters only, at the
\* lowest, a middle and the highest similarity_threshold
SymbolRows == {Row(1, FileDate(1), t, 0, 0) : t \in {s_ab, s_adot, s_b, s_dotdot, <<>>}}

InitSymbol ==
    /\ fn = "search_documents"
    /\ Idle /\ NoCoQuery
    /\ df \in [1..NumRows -> SymbolRows]
    /\ search_term \in {s_dot, s_dotdot}
    /\ similarity_threshold \in {0, 50, 100}
    /\ negation_terms = <<>>
    /\ negation_distance = 100
    /\ start_date = NoBound
    /\ end_date = NoBound

SpecSymbol == InitSymbol /\ [][NextSearch]_vars

(***************************************************************************)
(* name-frequency-analyzer: filter_data_by_year (data_processing.py lines  *)
(* 10-17).  A date cell is a timestamp [year, month], empty (NaT once      *)
(* converted), or a string pd.to_datetime cannot parse.                    *)
(***************************************************************************)
NaT == [year |-> 0, month |-> 0]

Unparseable == [year |-> -1, month |-> 0]

Years == 2000..2003

Timestamps == [year : Years, month : {1, 12}]

\* Series.dt.year
dt_year(d) == d.year

\* the frames given: with a 'date' column, or without one
DatedRows == [date : Timestamps \cup {NaT, Unparseable}, count : {10}]

UndatedRows == [count : {10}]

HasDateColumn(frame) == \A i \in 1..Len(frame) : "date" \in DOMAIN frame[i]

\* a plausible slip: the last year is excluded
InYears_exclusive(d, first, last) ==
    /\ d # NaT
    /\ dt_year(d) >= first
    /\ dt_year(d) < last

\* (df['date'].dt.year >= start_year) & (df['date'].dt.year <= end_year):
\* the year of NaT is NaN and compares False
InYears(d, first, last) ==
    /\ d # NaT
    /\ dt_year(d) >= first
    /\ dt_year(d) <= last

filter_data_by_year ==
    /\ fn = "filter_data_by_year" /\ pc = "start"
    /\ pc' = "done"
    /\ IF ~HasDateColumn(df)
       THEN /\ ret' = "None"
            /\ filtered_df' = filtered_df
       ELSE IF \E i \in 1..Len(df) : df[i].date = Unparseable
       THEN /\ ret' = "ValueError"
            /\ filtered_df' = filtered_df
       ELSE /\ ret' = "results"
            /\ filtered_df' = SelectSeq([i \in 1..Len(df) |-> i],
                                        LAMBDA i : InYears(df[i].date, start_year, end_year))
    /\ UNCHANGED <<fn, df, search_term, similarity_threshold, terms, min_terms_required,
                   negation_terms, negation_distance, start_date, end_date,
                   exact_matches, fuzzy_matches, term_matches, unique_pages,
                   qualifying_pages, search_results>>
    /\ UNCHANGED <<renderVars, driverVars, start_year, end_year>>

InitYear ==
    /\ fn = "filter_data_by_year"
    /\ RenderIdle /\ SearchIdle /\ DriverIdle
    /\ NoSingleQuery /\ NoCoQuery
    /\ negation_terms = <<>>
    /\ negation_distance = 0
    /\ start_date = NoBound
    /\ end_date = NoBound
    /\ df \in [1..NumRows -> DatedRows] \cup [1..NumRows -> UndatedRows]
    /\ start_year \in Years
    /\ end_year \in Years
    /\ filtered_df = <<>>

SpecYear == InitYear /\ [][filter_data_by_year]_vars

\* the renderer started in a working directory that already holds files
\* named _tmp_*.pdf which the call did not create (owner 0): one with a name
\* no document of the call maps to, one with the name of c.pdf's render
p_old == <<"_", "t", "m", "p", "_", "o", "l", "d", ".", "p", "d", "f">>

ForeignContent == [src |-> <<"o", "l", "d">>, pages |-> 1, rects |-> {}, colours |-> {},
                   watermark |-> FALSE]

ForeignFiles ==
    {[path |-> p, content |-> ForeignContent, owner |-> 0] : p \in {p_old, temp_path(f_c)}}

InitForeign ==
    /\ fn = "highlight_search_results"
    /\ SearchIdle /\ DriverIdle /\ PlotIdle /\ NoSingleQuery /\ NoCoQuery
    /\ df = <<>>
    /\ negation_terms = <<>>
    /\ negation_distance = 0
    /\ start_date = NoBound
    /\ end_date = NoBound
    /\ source_files \in {RenderFiles, {f_a_b}}
    /\ tmp_disk \in (SUBSET ForeignFiles) \ {{}}
    /\ \E n \in 0..(MaxDocs - 1) : \E rows \in CsvRows(n) : \E outline \in BOOLEAN :
          call = [c \in Calls |->
                    IF c = 1
                    THEN [IdleCall EXCEPT !.pc = "start",
                                          !.search_results = rows,
                                          !.add_bookmarks = outline]
                    ELSE IdleCall]

SpecForeign == InitForeign /\ [][NextRender]_vars

(***************************************************************************)
(* Properties.                                                             *)
(***************************************************************************)
\* the term occurs in the text as a literal substring, letter case ignored
ContainsLiteral(text, term) ==
    \E i \in 1..(Len(text) + 1) :
        /\ i + Len(term) - 1 <= Len(text)
        /\ \A k \in 1..Len(term) : Lower(term[k]) = Lower(text[i + k - 1])

\* C1: every row that search_documents returns from its exact stage has a
\* text that contains the search term as a case-insensitive literal substring.
C1_ExactRowsContainTerm ==
    (fn = "search_documents" /\ pc = "done" /\ ret = "results") =>
        \A k \in 1..Len(search_results) :
            search_results[k].idx \in Range(exact_matches) =>
                ContainsLiteral(df[search_results[k].idx].text, search_term)

\* the matches handed to the negation stage
Matched == Rows(drop_duplicates(df, ExactRows(exact_matches) \o fuzzy_matches))

\* some corpus row of the same file holds a negation term as a whole word and
\* its anchor lies within negation_distance of the anchor of match r
NegationNearby(r) ==
    \E i \in 1..Len(df) :
        /\ df[i].filename = df[r.idx].filename
        /\ \E k \in 1..Len(negation_terms) : str_contains_word(df[i].text, negation_terms[k])
        /\ (df[i].bbx0 - df[r.idx].bbx0) * (df[i].bbx0 - df[r.idx].bbx0)
             + (df[i].bby0 - df[r.idx].bby0) * (df[i].bby0 - df[r.idx].bby0)
           <= negation_distance * negation_distance

NegationStageDone ==
    /\ fn = "search_documents"
    /\ pc = "negated" \/ (pc = "done" /\ ret = "None")

\* C2: with negation terms given, the negation stage of search_documents
\* removes a match if and only if a row of the same file contains a negation
\* term as a whole word with its anchor within negation_distance of the
\* match's anchor; the other matches are kept, in their order.
C2_NegationDropsIffNearby ==
    (NegationStageDone /\ Len(negation_terms) > 0) =>
        search_results = SelectSeq(Matched, LAMBDA r : ~NegationNearby(r))

\* a run in which the negation stage removed one match and kept another
C2_Witness ==
    /\ NegationStageDone /\ Len(negation_terms) > 0
    /\ Len(search_results) > 0
    /\ Len(search_results) < Len(Matched)

CoReturned == fn = "search_documents_co_occurrence" /\ pc = "done" /\ ret = "results"

\* the query terms that occur as a whole word in some corpus row of the page
TermsOnPage(page) ==
    {t \in Range(terms) :
        \E i \in 1..Len(df) : PageOfRow(df[i]) = page /\ str_contains_word(df[i].text, t)}

ResultPages == {PageOfRow(df[search_results[k].idx]) : k \in 1..Len(search_results)}

\* C3: every match in the output of search_documents_co_occurrence lies on a
\* page on which at least min_terms_required distinct query terms have a
\* match; a page with fewer distinct matched terms contributes no match.
C3_OutputPagesQualify ==
    CoReturned =>
        \A page \in ResultPages : Cardinality(TermsOnPage(page)) >= min_terms_required

\* a returned result next to a page that matched a term and was left out
C3_Witness ==
    /\ CoReturned
    /\ \E page \in Range(unique_pages) :
          /\ page \notin ResultPages
          /\ Cardinality(TermsOnPage(page)) > 0
          /\ Cardinality(TermsOnPage(page)) < min_terms_required

\* the distinct terms among the output rows of a page
SurvivingTerms(page) ==
    {search_results[k].search_term :
        k \in {j \in 1..Len(search_results) : PageOfRow(df[search_results[j].idx]) = page}}

\* C4: in the final output of search_documents_co_occurrence every page has
\* at least min_terms_required distinct search terms among the matches that
\* survived negation and date filtering (filtering precedes qualification).
C4_QualifiedAfterFiltering ==
    CoReturned =>
        \A page \in ResultPages : Cardinality(SurvivingTerms(page)) >= min_terms_required

\* the pages on which the term has a whole-word match
PagesOfTerm(t) ==
    {PageOfRow(df[i]) : i \in {j \in 1..Len(df) : str_contains_word(df[j].text, t)}}

\* the strict-AND join: the pages on which every entry of terms has a match
JoinPages == {page \in PagesOfTerm(terms[1]) : \A k \in 1..Len(terms) : page \in PagesOfTerm(terms[k])}

\* the per-term matches on the join pages, as (index label, term) pairs
JoinMatches ==
    {<<i, t>> \in (1..Len(df)) \X Range(terms) :
        str_contains_word(df[i].text, t) /\ PageOfRow(df[i]) \in JoinPages}

OutputMatches == {<<search_results[k].idx, search_results[k].search_term>> : k \in 1..Len(search_results)}

StrictAndQuery ==
    /\ fn = "search_documents_co_occurrence" /\ pc = "done"
    /\ ret \in {"results", "None"}
    /\ min_terms_required = Len(terms)
    /\ negation_terms = <<>> /\ start_date = NoBound /\ end_date = NoBound

EqualsJoin ==
    /\ ResultPages = JoinPages
    /\ OutputMatches = JoinMatches
    /\ Cardinality(OutputMatches) = Len(search_results)

PairwiseDistinct(s) == \A i, j \in 1..Len(s) : s[i] = s[j] => i = j

\* C5 as stated: with min_terms_required = len(terms), no negation and no
\* date range, the output is the strict-AND join of the per-term matches by
\* page, for every term list, lists with repeated terms included.
C5_StrictAndAnyTerms == StrictAndQuery => EqualsJoin

\* C5 amended: the same for term lists whose entries are pairwise distinct.
C5_StrictAndDistinctTerms == (StrictAndQuery /\ PairwiseDistinct(terms)) => EqualsJoin

\* a strict-AND query of distinct terms that returned the join and left a page out
C5_Witness ==
    /\ StrictAndQuery /\ PairwiseDistinct(terms) /\ ret = "results"
    /\ JoinPages # {}
    /\ \E page \in Range(unique_pages) : page \notin JoinPages

Returned == pc = "done" /\ ret = "results"

\* no row of the sequence sorts strictly before a row that precedes it
IsSortedBy(results, Before(_, _)) ==
    \A i, j \in 1..Len(results) : i < j => ~Before(results[j], results[i])

\* the term a result row matched
MatchedTerm(r) == IF fn = "search_documents" THEN search_term ELSE r.search_term

\* the distinct-term count of the row's page; not a key outside co-occurrence
TermCount(r) == IF fn = "search_documents" THEN 0 ELSE r.co_occurring_terms_count

\* the order of the specification: filename, page date ascending, page
\* number ascending, distinct-term count descending, matched term
RankerBefore(a, b) ==
    LET ra == df[a.idx]
        rb == df[b.idx]
    IN  \/ ra.filename < rb.filename
        \/ /\ ra.filename = rb.filename
           /\ \/ DateBefore(ra.date, rb.date)
              \/ /\ ra.date = rb.date
                 /\ \/ ra.page_number < rb.page_number
                    \/ /\ ra.page_number = rb.page_number
                       /\ \/ TermCount(a) > TermCount(b)
                          \/ /\ TermCount(a) = TermCount(b)
                             /\ StrLess(MatchedTerm(a), MatchedTerm(b))

\* C6 as stated: the returned sequence is sorted by filename, then page date
\* ascending, then page number ascending, then (co-occurrence) distinct-term
\* count descending, then matched term.
C6_SortedByFilenameDatePage == Returned => IsSortedBy(search_results, RankerBefore)

\* page date ascending with empty dates last, then page number ascending
DatePageBefore(a, b) ==
    LET ra == df[a.idx]
        rb == df[b.idx]
    IN  \/ DateBefore(ra.date, rb.date)
        \/ ra.date = rb.date /\ ra.page_number < rb.page_number

\* filename, page number ascending, distinct-term count descending, term
FilePageCountTermBefore(a, b) ==
    LET ra == df[a.idx]
        rb == df[b.idx]
    IN  \/ ra.filename < rb.filename
        \/ /\ ra.filename = rb.filename
           /\ \/ ra.page_number < rb.page_number
              \/ /\ ra.page_number = rb.page_number
                 /\ \/ a.co_occurring_terms_count > b.co_occurring_terms_count
                    \/ /\ a.co_occurring_terms_count = b.co_occurring_terms_count
                       /\ StrLess(a.search_term, b.search_term)

\* C6 amended: search_documents returns its matches sorted by page date
\* ascending (empty dates last), then page number ascending, the filename
\* being no key; search_documents_co_occurrence returns them sorted by
\* filename, then page number ascending, then distinct-term count
\* descending, then matched term, the page date being no key.
C6_SortedAsCoded ==
    Returned =>
        IF fn = "search_documents"
        THEN IsSortedBy(search_results, DatePageBefore)
        ELSE IsSortedBy(search_results, FilePageCountTermBefore)

\* a returned sequence whose order the sort had to change
C6_Witness ==
    /\ Returned
    /\ \E i, j \in 1..Len(search_results) :
          i < j /\ search_results[j].idx < search_results[i].idx

\* the output of the stages after the page set, had the set been iterated
\* in the order given
OutputFor(order) ==
    LET collected == CollectAll(df, term_matches,
                                QualifyingPages(df, term_matches, order, min_terms_required))
    IN  SortCoOccurrence(df, DateFilter(df, collected, start_date, end_date))

\* the pages in ascending order of filename and page number
PagesAscending ==
    CHOOSE o \in Orderings(Range(unique_pages)) :
        \A i, j \in 1..Len(o) :
            i < j => (o[i][1] < o[j][1] \/ (o[i][1] = o[j][1] /\ o[i][2] < o[j][2]))

\* C7: the matches search_documents_co_occurrence returns, and their order,
\* do not depend on the order in which the set unique_pages is iterated: the
\* output of a run equals the output of the run that iterates the pages in
\* ascending order.
C7_OrderIndependentOfIteration ==
    CoReturned => search_results = OutputFor(PagesAscending)

\* a run that returned matches of two pages iterated in another order
C7_Witness ==
    /\ CoReturned
    /\ Cardinality(ResultPages) >= 2
    /\ unique_pages # PagesAscending


(***************************************************************************)
(* Properties of highlight_search_results.                                 *)
(***************************************************************************)
\* the source documents of the merged writer, in the order of the appends
Sources(c) == [k \in 1..Len(call[c].pdf_writer) |-> call[c].pdf_writer[k].src]

\* the index of the first result row of a filename
FirstAppearance(c, filename) ==
    CHOOSE k \in 1..Len(call[c].search_results) :
        /\ call[c].search_results[k].filename = filename
        /\ \A j \in 1..(k - 1) : call[c].search_results[j].filename # filename

HasMatchRow(c, filename) ==
    \E k \in 1..Len(call[c].search_results) : call[c].search_results[k].filename = filename

Exited(c) == call[c].pc = "done"

\* C8: the documents appended to the merged output all have a match row in
\* the results, stand in the order of the first appearance of their
\* filenames in the results, and each document that was processed
\* successfully is there exactly once.
C8_AppendedInFirstAppearanceOrder ==
    \A c \in Calls :
        /\ \A i \in 1..Len(Sources(c)) : HasMatchRow(c, Sources(c)[i])
        /\ \A i, j \in 1..Len(Sources(c)) :
              i < j => FirstAppearance(c, Sources(c)[i]) < FirstAppearance(c, Sources(c)[j])
        /\ \A k \in 1..Len(call[c].outcome) :
              call[c].outcome[k] = "ok"
                  => Cardinality({i \in 1..Len(Sources(c)) :
                                     Sources(c)[i] = call[c].unique_filenames[k]}) = 1

\* a call has returned an output of two documents for results in which the
\* rows of the first document surround a row of the second one
C8_Witness ==
    \E c \in Calls :
        /\ Exited(c) /\ call[c].written
        /\ Len(call[c].search_results) >= 3
        /\ call[c].search_results[1].filename = call[c].search_results[3].filename
        /\ call[c].search_results[1].filename # call[c].search_results[2].filename
        /\ Len(call[c].output) = 2
        /\ call[c].output[1].src = call[c].search_results[1].filename

Failures == {"missing", "open_fails", "annotate_fails", "save_fails",
             "append_fails", "bookmark_raises"}

Logged(c, filename) == \E k \in 1..Len(call[c].log) : call[c].log[k].filename = filename

\* C9: a document that is missing, does not open, or raises while it is
\* annotated or saved is logged and skipped; the loop goes on with the next
\* filename, reaches the end of the list, and the later documents whose
\* steps succeed are in the writer.
C9_FailureSkipsOneDocument ==
    \A c \in Calls :
        /\ call[c].pc \in {"loop", "append"} => Len(call[c].outcome) = call[c].pos - 1
        /\ call[c].pc \in {"finally", "done"}
              => Len(call[c].outcome) = Len(call[c].unique_filenames)
        /\ \A k \in 1..Len(call[c].outcome) :
              /\ call[c].outcome[k] \in Failures => Logged(c, call[c].unique_filenames[k])
              /\ call[c].outcome[k] = "ok"
                    => \E i \in 1..Len(Sources(c)) : Sources(c)[i] = call[c].unique_filenames[k]
        /\ call[c].raised => \E k \in 1..Len(call[c].outcome) : call[c].outcome[k] = "ok"

\* a call has returned an output that holds a document which came after a
\* missing one and after one that raised
C9_Witness ==
    \E c \in Calls :
        /\ Exited(c) /\ call[c].written
        /\ Len(call[c].outcome) = 3
        /\ call[c].outcome[1] = "missing"
        /\ call[c].outcome[2] \in {"open_fails", "annotate_fails", "save_fails"}
        /\ call[c].outcome[3] = "ok"
        /\ Len(call[c].output) = 1
        /\ call[c].output[1].src = call[c].unique_filenames[3]

SomeProcessed(c) == \E k \in 1..Len(call[c].outcome) : call[c].outcome[k] = "ok"

\* pdf_writer.write has been called: it has written the output or has raised
WriteCalled(c) == call[c].written \/ call[c].raised

NoPagesResult ==
    <<"None", "No pages were successfully processed. No output PDF created.", 0, 0>>

\* C10: the output is written only if a document was processed
\* successfully; after the loop the write is made if and only if one was;
\* when every document is missing or fails the call returns
\* (None, message, 0, 0) and there is no output.
C10_WriteIffProcessed ==
    \A c \in Calls :
        /\ WriteCalled(c) => SomeProcessed(c)
        /\ call[c].pc \in {"finally", "done"} /\ call[c].search_results # <<>>
              => /\ WriteCalled(c) <=> SomeProcessed(c)
                 /\ ~SomeProcessed(c)
                       => /\ call[c].result = NoPagesResult
                          /\ ~call[c].written
                          /\ call[c].output = <<>>

\* a call has returned after a missing document and a document that was
\* appended but whose bookmark raised
C10_Witness ==
    \E c \in Calls :
        /\ Exited(c)
        /\ Len(call[c].outcome) = 2
        /\ call[c].outcome[1] = "missing"
        /\ call[c].outcome[2] = "bookmark_raises"
        /\ call[c].result = NoPagesResult
        /\ ~call[c].written

\* the temporary files on disk that a call has created
CreatedBy(c) == {e \in tmp_disk : e.owner = c}

C12_HandlesClosed ==
    \A c \in Calls : Exited(c) => call[c].open_docs = {}

\* the temporary file a call has saved for its current document and has not
\* yet appended to its writer is on disk as the call saved it
SavedFileIntact(c) ==
    \E e \in tmp_disk :
        /\ e.path = temp_path(Filename(c))
        /\ e.owner = c
        /\ e.content = Rendered(c, Filename(c))

\* C13: while a call stands between doc.save and pdf_writer.append, the
\* temporary file it saved has neither been deleted nor overwritten by the
\* other call.
C13_NoInterference ==
    \A c \in Calls : call[c].pc = "append" => SavedFileIntact(c)

\* the number of pages the writer held before its i-th document was appended
PagesBefore(c, i) == NumPages(SubSeq(call[c].pdf_writer, 1, i - 1))

\* C14: every outline entry belongs to a document of the writer, has the
\* page index the merged output had before that document was appended (the
\* first page the document contributed), whatever the page count of the
\* document, and is titled by the filename without its '.pdf'.
C14_BookmarkAtFirstPage ==
    \A c \in Calls : \A k \in 1..Len(call[c].outline) :
        \E i \in 1..Len(call[c].pdf_writer) :
            LET src == call[c].pdf_writer[i].src
            IN  /\ call[c].outline[k].title \o dot_pdf = src
                /\ call[c].outline[k].page_number = PagesBefore(c, i)

BothWritten == \A c \in Calls : Exited(c) /\ call[c].written

\* the palette index a written output shows for a term: the colours of the
\* highlights of the rows of that term in the documents of the output
ColoursOfTerm(c, term) ==
    {h[2] : h \in {g \in UNION {call[c].output[i].colours : i \in 1..Len(call[c].output)} :
                      \E k \in 1..Len(call[c].search_results) :
                          /\ call[c].search_results[k].rect = g[1]
                          /\ call[c].search_results[k].search_term = term}}

\* C15: in the outputs of two runs on the same co-occurrence results every
\* term has one palette colour, the same in both runs.
C15_TermColourStable ==
    BothWritten =>
        \A term \in ColourTerms : \A c, d \in Calls :
            Cardinality(ColoursOfTerm(c, term) \cup ColoursOfTerm(d, term)) <= 1

\* the source documents of a written output, in order
OutputSources(c) == [k \in 1..Len(call[c].output) |-> call[c].output[k].src]

\* the highlighted rectangles of a written output, document by document
OutputRects(c) == [k \in 1..Len(call[c].output) |-> call[c].output[k].rects]

\* the documents met the same fate in both runs
SameAnswers == \A c, d \in Calls : call[c].outcome = call[d].outcome

BadMinTerms == min_terms_required < 1 \/ min_terms_required > Len(terms)

\* C17: once search_documents_co_occurrence has passed its validation with
\* a min_terms_required outside [1, len(terms)], zero and negative values
\* included, it has returned the error and has matched nothing.
C17_RejectsBadMinTerms ==
    fn = "search_documents_co_occurrence" /\ pc # "start" /\ BadMinTerms
        => /\ ret = "Error"
           /\ term_matches = <<>>
           /\ search_results = <<>>

\* C18: search_documents and search_documents_co_occurrence return no match
\* set when a bound is malformed (the set would have been filtered by no
\* bound, or by start_date alone).
C18_MalformedBoundRejected ==
    fn \in {"search_documents", "search_documents_co_occurrence"} /\ ret = "results"
        => start_date # Malformed /\ end_date # Malformed

(***************************************************************************)
(* Properties of search_and_highlight.                                     *)
(***************************************************************************)
DriverEnded == driver.pc \in {"returned", "raised"}

\* C19: in a run whose corpus CSV is missing the search function returns
\* the error before it has matched anything, search_and_highlight returns
\* None, no results CSV is written and the renderer is never called.
C19_MissingCorpusStops ==
    driver.pc # "idle" /\ ~csv_found =>
        /\ exact_matches = <<>> /\ fuzzy_matches = <<>> /\ term_matches = <<>>
        /\ search_results = <<>>
        /\ pc = "done" => ret = "NotFound"
        /\ files = {}
        /\ \A c \in Calls : call[c].pc = "idle"
        /\ driver.pc \in {"search", "returned"}
        /\ driver.pdf_path = "None"

\* search_and_highlight has returned after search_documents did not find
\* the corpus CSV
C19_Witness ==
    /\ ~csv_found
    /\ driver.pc = "returned"
    /\ search_term = s_ab
    /\ ret = "NotFound"

NoOutputPdf == \A c \in Calls : ~call[c].written

KeptWith(d) == Range(NegationFilter(df, Matched, negation_terms, d))

\* C21: the matches the negation stage has kept are among those it keeps
\* with any smaller negation_distance, and contain those it keeps with any
\* larger one.
C21_NegationMonotone ==
    NegationStageDone =>
        /\ Range(search_results) = KeptWith(negation_distance)
        /\ \A d \in Distances :
              /\ d <= negation_distance => Range(search_results) \subseteq KeptWith(d)
              /\ d >= negation_distance => KeptWith(d) \subseteq Range(search_results)

\* the stage has kept a match at distance 4 that it drops at distance 5
C21_Witness ==
    /\ NegationStageDone /\ Len(negation_terms) > 0
    /\ negation_distance = 4
    /\ KeptWith(5) # Range(search_results)
    /\ KeptWith(5) \subseteq Range(search_results)

(***************************************************************************)
(* Properties of word_level_similarity.                                    *)
(***************************************************************************)
Scored == fn = "word_level_similarity" /\ pc = "done"

\* the words of the normalized form of a string
WordsOf(str) == Split(LowerStr(clean_text(str)))

\* C22 as stated: the score of a term against a text is the score of the
\* text against the term, whatever the number of words of either, and a
\* string whose normalized form is not empty scores 100 against itself.
C22_SymmetricAndReflexive ==
    Scored =>
        /\ fuzzy_matches[1].similarity = word_level_similarity(df[1].text, search_term)
        /\ (search_term = df[1].text /\ WordsOf(search_term) # <<>>)
              => fuzzy_matches[1].similarity = 100

\* what does hold: when the term and the text each normalize to at most one
\* word the score is the same with the two swapped, and a string that
\* normalizes to exactly one word scores 100 against itself.
SymmetricOnSingleWords ==
    Scored =>
        /\ (Len(WordsOf(search_term)) <= 1 /\ Len(WordsOf(df[1].text)) <= 1)
              => fuzzy_matches[1].similarity = word_level_similarity(df[1].text, search_term)
        /\ (search_term = df[1].text /\ Len(WordsOf(search_term)) = 1)
              => fuzzy_matches[1].similarity = 100

\* two different single words have been scored, with a score between 0 and 100
SingleWordsScored ==
    /\ Scored
    /\ Len(WordsOf(search_term)) = 1 /\ Len(WordsOf(df[1].text)) = 1
    /\ WordsOf(search_term) # WordsOf(df[1].text)
    /\ fuzzy_matches[1].similarity > 0
    /\ fuzzy_matches[1].similarity < 100

(***************************************************************************)
(* Properties of search_documents for terms without letters.               *)
(***************************************************************************)
\* C23: for a search term of non-alphabetic characters only, the matching
\* stage of search_documents yields no fuzzy match at any threshold, and its
\* exact matches are exactly the rows whose text contains the term as a
\* literal substring.
C23_SymbolTermExactOnly ==
    (fn = "search_documents" /\ pc # "start" /\ ret # "NotFound"
        /\ \A k \in 1..Len(search_term) : ~IsAlpha(search_term[k])) =>
        /\ fuzzy_matches = <<>>
        /\ Range(exact_matches) =
              {i \in 1..Len(df) : ContainsLiteral(df[i].text, search_term)}

(***************************************************************************)
(* Properties of the chunked fuzzy stage.                                  *)
(***************************************************************************)
\* the chunk sizes compared: one row per chunk up to all rows in one chunk
ChunkSizes == 1..(NumRows + 1)

\* all remaining rows scored in one pass
OnePass == ChunkMatches(df, Remaining(df, exact_matches), search_term, similarity_threshold)

\* C24: the fuzzy matches of search_documents are the rows that scoring all
\* remaining rows in one pass gives, and the loop over chunks gives the same
\* rows in the same order for every chunk size from 1 upwards.
C24_ChunkingIrrelevant ==
    (fn = "search_documents" /\ pc # "start" /\ ret # "NotFound") =>
        /\ fuzzy_matches = OnePass
        /\ \A size \in ChunkSizes :
              FuzzyChunks(df, Remaining(df, exact_matches), search_term,
                          similarity_threshold, size) = OnePass

\* the fuzzy stage had several remaining rows, and more than one of them matched
C24_Witness ==
    /\ fn = "search_documents" /\ pc = "matched"
    /\ Len(Remaining(df, exact_matches)) >= 2
    /\ Len(fuzzy_matches) >= 2
    /\ Len(fuzzy_matches) = Len(OnePass)

(***************************************************************************)
(* Properties of the date stage of search_documents.                       *)
(***************************************************************************)
\* the matches handed to the date stage
BeforeDateStage ==
    IF negation_terms = <<>> THEN Matched
    ELSE NegationFilter(df, Matched, negation_terms, negation_distance)

DateStageDone ==
    /\ fn = "search_documents"
    /\ pc = "dated" \/ (pc = "done" /\ ret = "None" /\ BeforeDateStage # <<>>)

InBounds(d) ==
    /\ start_date = NoBound \/ start_date <= d
    /\ end_date = NoBound \/ d <= end_date

\* C25: with well-formed bounds the date stage of search_documents keeps a
\* dated match if and only if its date is at or after start_date (when given)
\* and at or before end_date (when given); with no bound given it keeps every
\* match, dated or not.
C25_DateStageInclusive ==
    (DateStageDone /\ start_date # Malformed /\ end_date # Malformed) =>
        \A k \in 1..Len(BeforeDateStage) :
            LET r == BeforeDateStage[k]
                d == df[r.idx].date
            IN  /\ d # NoDate => (r \in Range(search_results) <=> InBounds(d))
                /\ (start_date = NoBound /\ end_date = NoBound)
                      => r \in Range(search_results)

\* a match dated on the bound itself was kept and a dated match was dropped
C25_Witness ==
    /\ DateStageDone /\ pc = "dated"
    /\ start_date \notin {NoBound, Malformed} /\ end_date \notin {NoBound, Malformed}
    /\ \E r \in Range(search_results) : df[r.idx].date = start_date /\ df[r.idx].date = end_date
    /\ \E r \in Range(BeforeDateStage) : df[r.idx].date # NoDate /\ r \notin Range(search_results)

C27_CoNegationAsSingle ==
    fn = "search_documents_co_occurrence" =>
        /\ ret # "NameError"
        /\ pc = "negated" =>
              search_results = NegationFilter(df, search_results, negation_terms,
                                              negation_distance)

(***************************************************************************)
(* Properties of the renderer's counters and temporary files.              *)
(***************************************************************************)
\* C28: between the steps of highlight_search_results processed_count is the
\* number of documents appended to the merged writer, so the call reports no
\* pages only when the writer is empty, and the page count it returns is the
\* number of documents in the output.
C28_CountIsWriterContent ==
    \A c \in Calls :
        /\ call[c].processed_count = Len(call[c].pdf_writer)
        /\ call[c].result = NoPagesResult => call[c].pdf_writer = <<>>
        /\ call[c].written => call[c].result[3] = Len(call[c].output)

\* C29: highlight_search_results leaves every file it did not create: at no
\* step is a _tmp_*.pdf file that was in the working directory before the
\* call removed or given another content.
C29_ForeignFilesUntouched ==
    [][\A e \in tmp_disk : e.owner = 0 => e \in tmp_disk']_vars

\* C30: within one call the documents rendered have pairwise different
\* temporary paths, and no step replaces the temporary render of one
\* document by the render of another.
C30_DistinctTempPaths ==
    /\ [](\A c \in Calls : \A j, k \in 1..Len(call[c].unique_filenames) :
              j # k => temp_path(call[c].unique_filenames[j])
                         # temp_path(call[c].unique_filenames[k]))
    /\ [][\A e \in tmp_disk : \A n \in tmp_disk' : n.path = e.path => n = e]_vars
====
